---- MODULE Spec2Model ----
(***************************************************************************)
(* State-machine model of the "Crowd Control" gameplay scripts: the Player *)
(* script (keyboard state, velocity, health bar), the Enemy script         *)
(* (pursuit through a two-slot multi-borrow) and the EnemySpawner script   *)
(* (timer-driven spawn inside a clamped rectangle around the player), and  *)
(* of the plugin (script registration, scene loading, tile map).           *)
(*                                                                         *)
(* Numbers.  f32 quantities are fixed-point integers:                      *)
(*   - positions: world units;                                             *)
(*   - time (dt, spawn_rate, spawn_timer): hundredths of a second;         *)
(*   - velocities and node scales: hundredths (3.0 is 300, 1.0 is 100);    *)
(*   - health and damage: health points;                                   *)
(*   - UV coordinates: thousandths of the sprite sheet;                    *)
(*   - a BitMask is the set of its set bits (bit 0 least significant).     *)
(* A Rust panic ends the process: it is recorded in the variable panic,    *)
(* and every hook is guarded by panic = "".                                *)
(***************************************************************************)
EXTENDS Integers, Sequences, FiniteSets, TLC

VARIABLES
    graph,          \* the scene graph's node pool: a sequence of node records
    spawner,        \* the EnemySpawner script's fields
    spawner_cfg,    \* how the spawner was configured: [rate, via]
    spawner_inited, \* the host has called EnemySpawner::on_init
    spawned,        \* number of enemies spawn_enemy has built
    player,         \* the Player script's fields
    player_inited,  \* the host has called Player::on_init
    healed,         \* take_damage was called with a negative damage
    enemy_inited,   \* handles of the nodes whose Enemy::on_init has run
    registry,       \* script_constructors: the registered [uuid, name] pairs
    plugin,         \* the plugin: its life-cycle state and Game.scene
    scenes,         \* the host's scene container: a sequence of scene records
    loader,         \* the async scene loader: "idle", "requested" or "loading"
    build,          \* build_tilemap's position: [pc, scene, x, y, uv]
    tick,           \* the frame in progress: [active, pending, dt, start]
    panic,          \* "" while the process runs, else the panic's message
    hook            \* the hook the host invoked last, with its arguments

spawner_vars == <<spawner, spawner_cfg, spawner_inited, spawned>>
player_vars == <<player, player_inited, healed>>
plugin_vars == <<registry, plugin, scenes, loader, build>>
script_vars == <<graph, spawner_vars, player_vars, enemy_inited>>
vars == <<graph, spawner_vars, player_vars, enemy_inited, plugin_vars, tick, panic, hook>>

-----------------------------------------------------------------------------
(* Arena constants (crate::constants). *)

MIN_MAP_XY == -10
MAX_MAP_XY == 10
MAP_OFFSET == 11
MIN_MAP_XY_WITH_OFFSET == MIN_MAP_XY + MAP_OFFSET
MAX_MAP_XY_WITH_OFFSET == MAX_MAP_XY + MAP_OFFSET

-----------------------------------------------------------------------------
(* Bounds of the model. *)

\* spawn_enemy is not run once this many enemies exist.
MaxEnemies == 1

\* Frame times handed to on_update, in hundredths of a second.
DTs == {0, 5, 10, 30}

\* Spawn periods a scene or a builder call configures, in hundredths.
ConfiguredRates == {0, 10}

\* Spawn radii a scene configures, in world units.
Radii == {-1, 0, 1, 5}

\* Damage handed to take_damage, in health points.
Damages == {-25, 25, 75}

\* take_damage is not run once health would leave
\* -HealthSpan .. max_health + HealthSpan.
HealthSpan == 50

\* Scenes the host loads before the model stops requesting more.
MaxScenes == 2

\* Positions of the rigid bodies in the pursuit scenes.
BodyPositions == {<<0, 0>>, <<3, 4>>, <<4, 3>>}

\* Enemy speeds a scene configures, in hundredths.
EnemySpeeds == {0, 200}

\* Positions the host's physics may give the player.
PlayerPositions ==
    { <<MAP_OFFSET, MAP_OFFSET>>,
      <<MAX_MAP_XY_WITH_OFFSET, MAX_MAP_XY_WITH_OFFSET>>,
      <<MAX_MAP_XY_WITH_OFFSET + 1, MIN_MAP_XY_WITH_OFFSET>> }

-----------------------------------------------------------------------------
(* The scene graph: a pool of nodes addressed by handles. *)

\* Handle::NONE
NONE == 0

\* The archetype record types::Enemy::new() builds.
TypesEnemyNew ==
    [name |-> "", speed |-> 0, scale |-> 100, attack_damage |-> 0, attack_speed |-> 0]

\* The Enemy script Enemy::new() builds.
EnemyNew ==
    [handle |-> NONE, sprite |-> NONE, name |-> "", speed |-> 0, scale |-> 100,
     attack_damage |-> 0, attack_speed |-> 0, starting_position |-> <<0, 0>>,
     attack_timer |-> 0, player_handle |-> NONE, player_collider |-> NONE]

\* The bits of a BitMask(u32), bit 0 being the least significant.  A mask is
\* the set of its set bits.
MaskBits == 0..31

\* Whether bit i of a mask is set.
Bit(mask, i) == i \in mask

\* InteractionGroups::default(): every membership, every filter bit.
DefaultGroups == [memberships |-> MaskBits, filter |-> MaskBits]

\* A node as BaseBuilder::new() leaves it: no name, no parent, at the origin,
\* unit scale, no script; groups are the collision groups a collider has.
BaseNode(kind) ==
    [kind |-> kind, name |-> "", parent |-> NONE, pos |-> <<0, 0>>,
     lin_vel |-> <<0, 0>>, scale |-> <<100, 100, 100>>, script |-> "",
     enemy |-> EnemyNew, groups |-> DefaultGroups]

\* A handle resolves when it names a slot of the pool that holds a node.
IsValidHandle(g, h) == h \in 1..Len(g) /\ g[h].kind # "Vacant"

\* Graph::find_by_name_from_root: the first node of that name, or NONE.
FindByName(g, name) ==
    LET hits == {h \in 1..Len(g) : g[h].kind # "Vacant" /\ g[h].name = name}
    IN  IF hits = {} THEN NONE ELSE CHOOSE h \in hits : \A k \in hits : h <= k

-----------------------------------------------------------------------------
(* The host's frame: every script's on_update is invoked once per frame,   *)
(* in an order the scripts do not control, and physics steps afterwards.   *)

\* The script instances of a scene: the Player, the spawner, and an Enemy
\* per node that carries one.
ScriptPlayer == <<"Player", NONE>>
ScriptSpawner == <<"EnemySpawner", NONE>>
ScriptEnemy(h) == <<"Enemy", h>>

\* No frame is in progress.
NoTick == [active |-> FALSE, pending |-> {}, dt |-> 0, start |-> <<>>]

TickIdle == tick = NoTick

\* A script's on_update inside a frame runs once: it is taken off the
\* frame's pending set.  Outside a frame the hook is invoked on its own.
RunsInTick(script) ==
    IF tick.active
    THEN /\ script \in tick.pending
         /\ tick' = [tick EXCEPT !.pending = @ \ {script}]
    ELSE UNCHANGED tick

-----------------------------------------------------------------------------
(* EnemySpawner *)

\* EnemySpawner::new()
EnemySpawnerNew ==
    [spawn_rate |-> 0, spawn_timer |-> 0, spawn_radius |-> 0,
     enemy |-> TypesEnemyNew, player_handle |-> NONE]

\* The 0.05 s that with_spawn_rate adds, in hundredths.
SPAWN_RATE_PAD == 5

\* EnemySpawner::with_spawn_rate
WithSpawnRate(s, spawn_rate) ==
    [s EXCEPT !.spawn_rate = spawn_rate + SPAWN_RATE_PAD]

\* EnemySpawner::with_spawn_radius
WithSpawnRadius(s, spawn_radius) == [s EXCEPT !.spawn_radius = spawn_radius]

\* EnemySpawner::with_enemy
WithEnemy(s, enemy) == [s EXCEPT !.enemy = enemy]

\* The spawner a scene file deserialises: the fields are stored as configured.
LoadedSpawner(rate, radius) ==
    [EnemySpawnerNew EXCEPT !.spawn_rate = rate, !.spawn_radius = radius]

\* i32::abs, f32::abs
Abs(a) == IF a < 0 THEN -a ELSE a

Max(a, b) == IF a >= b THEN a ELSE b
Min(a, b) == IF a <= b THEN a ELSE b

\* SpawnRect with the upper clamps to the arena left out.
SpawnRect_NoUpperClamp(p, r) ==
    [min_x |-> Max(p[1] - r, MIN_MAP_XY_WITH_OFFSET),
     max_x |-> p[1] + r,
     min_y |-> Max(p[2] - r, MIN_MAP_XY_WITH_OFFSET),
     max_y |-> p[2] + r]

\* spawn_enemy's rectangle: the radius around the player cut to the arena.
SpawnRect(p, r) ==
    [min_x |-> Max(p[1] - r, MIN_MAP_XY_WITH_OFFSET),
     max_x |-> Min(p[1] + r, MAX_MAP_XY_WITH_OFFSET),
     min_y |-> Max(p[2] - r, MIN_MAP_XY_WITH_OFFSET),
     max_y |-> Min(p[2] + r, MAX_MAP_XY_WITH_OFFSET)]

\* rng.gen_range(low..high): any value of the half-open range; an empty range
\* panics ("cannot sample empty range").
GenRange(low, high) == low..(high - 1)
GenRangePanics(low, high) == low >= high

\* A binary literal read with its first digit as bit 0.
BinaryValue_FirstDigitLowest(digits) ==
    {i \in 0..(Len(digits) - 1) : digits[i + 1] = 1}

\* The value of a binary literal 0b..., its digits given as written: the
\* last digit is bit 0, the first digit the most significant bit.
BinaryValue(digits) ==
    {i \in 0..(Len(digits) - 1) : digits[Len(digits) - i] = 1}

\* 0b0100_0000_0000_0000_0000_0000_0000_0000
ENEMY_MEMBERSHIPS_LITERAL ==
    <<0,1,0,0, 0,0,0,0, 0,0,0,0, 0,0,0,0, 0,0,0,0, 0,0,0,0, 0,0,0,0, 0,0,0,0>>

\* 0b0011_1111_1111_1111_1111_1111_1111_1111
ENEMY_FILTER_LITERAL ==
    <<0,0,1,1, 1,1,1,1, 1,1,1,1, 1,1,1,1, 1,1,1,1, 1,1,1,1, 1,1,1,1, 1,1,1,1>>

\* The collision groups Enemy::build gives the collider.
EnemyGroups ==
    [memberships |-> BinaryValue(ENEMY_MEMBERSHIPS_LITERAL),
     filter |-> BinaryValue(ENEMY_FILTER_LITERAL)]

\* Enemy::build: a collider and a sprite rectangle are added to the pool, then
\* the rigid body that carries the script and takes both as children.
EnemyBuild(g, e) ==
    LET body == Len(g) + 3
        collider == [BaseNode("Collider") EXCEPT !.parent = body,
                                                 !.groups = EnemyGroups]
        sprite == [BaseNode("Rectangle") EXCEPT !.parent = body]
        rigid == [BaseNode("RigidBody") EXCEPT
                    !.pos = e.starting_position,
                    !.scale = <<e.scale, e.scale, 100>>,
                    !.script = "Enemy",
                    !.enemy = [e EXCEPT !.sprite = Len(g) + 2]]
    IN  g \o <<collider, sprite, rigid>>

\* spawn_enemy without the with_speed call.
SpawnedEnemy_DefaultSpeed(s, starting_position) ==
    [EnemyNew EXCEPT !.name = s.enemy.name,
                     !.starting_position = starting_position,
                     !.scale = s.enemy.scale,
                     !.attack_damage = s.enemy.attack_damage,
                     !.attack_speed = s.enemy.attack_speed]

\* The Enemy script spawn_enemy configures from the spawner's archetype.
SpawnedEnemy(s, starting_position) ==
    [EnemyNew EXCEPT !.name = s.enemy.name, !.speed = s.enemy.speed,
                     !.starting_position = starting_position,
                     !.scale = s.enemy.scale,
                     !.attack_damage = s.enemy.attack_damage,
                     !.attack_speed = s.enemy.attack_speed]

\* on_update's test for running spawn_enemy.
SpawnDue(s, timer) == timer >= s.spawn_rate

\* on_update that leaves the timer as it is after a spawn.
TimerAfterSpawn_NotReset(timer) == timer

\* The timer on_update stores after spawn_enemy returned.
TimerAfterSpawn(timer) == 0

\* EnemySpawner::on_init
SpawnerOnInit ==
    /\ panic = "" /\ ~spawner_inited
    /\ spawner_inited' = TRUE
    /\ LET h == FindByName(graph, "Player")
       IN  spawner' = IF h # NONE THEN [spawner EXCEPT !.player_handle = h]
                      ELSE spawner
    /\ hook' = [name |-> "spawner_on_init"]
    /\ UNCHANGED <<graph, spawner_cfg, spawned, panic, player_vars, enemy_inited, plugin_vars, tick>>

\* EnemySpawner::on_update with spawn_enemy inlined.  hook records dt and the
\* accumulated timer the spawn test saw.
SpawnerOnUpdate(dt) ==
    /\ panic = "" /\ spawner_inited /\ spawned < MaxEnemies
    /\ LET timer == spawner.spawn_timer + dt
           s == [spawner EXCEPT !.spawn_timer = timer]
       IN  /\ hook' = [name |-> "spawner_on_update", dt |-> dt, timer |-> timer]
           /\ IF ~SpawnDue(spawner, timer)
              THEN /\ spawner' = s
                   /\ UNCHANGED <<graph, spawned, panic>>
              ELSE IF ~IsValidHandle(graph, spawner.player_handle)
              THEN \* context.scene.graph[self.player_handle] panics
                   /\ panic' = "graph index: invalid handle"
                   /\ spawner' = s
                   /\ UNCHANGED <<graph, spawned>>
              ELSE LET rect == SpawnRect(graph[spawner.player_handle].pos,
                                         spawner.spawn_radius)
                   IN  IF \/ GenRangePanics(rect.min_x, rect.max_x)
                          \/ GenRangePanics(rect.min_y, rect.max_y)
                       THEN /\ panic' = "gen_range: empty range"
                            /\ spawner' = s
                            /\ UNCHANGED <<graph, spawned>>
                       ELSE \E x \in GenRange(rect.min_x, rect.max_x),
                               y \in GenRange(rect.min_y, rect.max_y) :
                              /\ graph' = EnemyBuild(graph, SpawnedEnemy(spawner, <<x, y>>))
                              /\ spawned' = spawned + 1
                              /\ spawner' = [s EXCEPT !.spawn_timer = TimerAfterSpawn(timer)]
                              /\ UNCHANGED panic
    /\ UNCHANGED <<spawner_cfg, spawner_inited, player_vars, enemy_inited, plugin_vars>>
    /\ RunsInTick(ScriptSpawner)

\* The host's physics step moves the player's rigid body.
HostMovePlayer(p) ==
    /\ panic = ""
    /\ LET h == FindByName(graph, "Player")
       IN  /\ h # NONE
           /\ graph[h].pos # p
           /\ graph' = [graph EXCEPT ![h].pos = p]
    /\ hook' = [name |-> "physics"]
    /\ UNCHANGED <<spawner_vars, player_vars, enemy_inited, panic, plugin_vars, tick>>


-----------------------------------------------------------------------------
(* Player *)

PLAYER_STARTING_HEALTH == 100

\* 1.0, in hundredths.
MAX_HEALTH_BAR_WIDTH == 100

\* The speed on_update gives an axis whose key is held: 3.0, in hundredths.
PLAYER_SPEED == 300

\* Player::default(): what the host deserialises before on_init runs.
PlayerDefault ==
    [move_left |-> FALSE, move_right |-> FALSE, move_up |-> FALSE,
     move_down |-> FALSE, max_health |-> 0, health |-> 0,
     health_bar_background |-> NONE, health_bar_progress |-> NONE]

\* A health-bar quad left at the builder's unit scale.
HealthBarNode_UnitScale(name) == [BaseNode("Rectangle") EXCEPT !.name = name]

\* One of the two health-bar quads on_init builds.
HealthBarNode(name) ==
    [BaseNode("Rectangle") EXCEPT
        !.name = name,
        !.scale = <<MAX_HEALTH_BAR_WIDTH, MAX_HEALTH_BAR_WIDTH \div 4, 100>>]

\* Graph::link_nodes(child, parent)
LinkNodes(g, child, parent) == [g EXCEPT ![child].parent = parent]

\* take_damage adding the damage instead of subtracting it.
TakeDamage_Adds(p, damage) == [p EXCEPT !.health = p.health + damage]

\* take_damage clamping health at 0.
TakeDamage_Clamped(p, damage) ==
    [p EXCEPT !.health = IF p.health - damage < 0 THEN 0 ELSE p.health - damage]

\* Player::take_damage
TakeDamage(p, damage) == [p EXCEPT !.health = p.health - damage]

\* OnKey with the S key wired to move_up.
OnKey_SMovesUp(p, key, pressed) ==
    CASE key = "KeyA" -> [p EXCEPT !.move_left = pressed]
      [] key = "KeyD" -> [p EXCEPT !.move_right = pressed]
      [] key = "KeyW" -> [p EXCEPT !.move_up = pressed]
      [] key = "KeyS" -> [p EXCEPT !.move_up = pressed]
      [] OTHER -> p

\* on_os_event's match on the physical key of a keyboard event.
OnKey(p, key, pressed) ==
    CASE key = "KeyA" -> [p EXCEPT !.move_left = pressed]
      [] key = "KeyD" -> [p EXCEPT !.move_right = pressed]
      [] key = "KeyW" -> [p EXCEPT !.move_up = pressed]
      [] key = "KeyS" -> [p EXCEPT !.move_down = pressed]
      [] OTHER -> p

\* Player::on_os_event as a function of the script and the event: only a
\* WindowEvent::KeyboardInput is looked at.
OnOsEvent(p, ev) ==
    IF ev.kind = "WindowEvent" /\ ev.window = "KeyboardInput"
    THEN OnKey(p, ev.key, ev.state = "Pressed")
    ELSE p

\* AxisSpeed with opposing keys not cancelling: the positive key wins.
AxisSpeed_PositiveWins(positive, negative) ==
    IF positive THEN PLAYER_SPEED
    ELSE IF negative THEN -PLAYER_SPEED
    ELSE 0

\* on_update's match on a pair of opposing keys.
AxisSpeed(positive, negative) ==
    IF positive /\ ~negative THEN PLAYER_SPEED
    ELSE IF ~positive /\ negative THEN -PLAYER_SPEED
    ELSE 0

\* NewHealth without the clamp at 0.
NewHealth_Unclamped(p) == (p.health * MAX_HEALTH_BAR_WIDTH) \div p.max_health

\* The x-scale on_update computes for the progress bar:
\* f32::max((health / max_health) * MAX_HEALTH_BAR_WIDTH, 0.0).  on_update runs
\* after on_init only, so max_health is not 0 here.
NewHealth(p) ==
    Max((p.health * MAX_HEALTH_BAR_WIDTH) \div p.max_health, 0)

\* Player::on_init on the node `self`.
PlayerOnInit ==
    /\ panic = "" /\ ~player_inited
    /\ LET self == FindByName(graph, "Player") IN
       /\ self # NONE
       /\ hook' = [name |-> "player_on_init"]
       /\ player_inited' = TRUE
       /\ IF graph[self].kind # "RigidBody"
          THEN \* cast_mut::<RigidBody>().unwrap() panics
               /\ panic' = "unwrap on None"
               /\ UNCHANGED <<graph, player>>
          ELSE LET background == Len(graph) + 1
                   progress == Len(graph) + 2
                   moved == [graph EXCEPT ![self].pos = <<MAP_OFFSET, MAP_OFFSET>>]
                   built == moved \o <<HealthBarNode("HealthBarBackground"),
                                       HealthBarNode("HealthBarProgress")>>
               IN  /\ graph' = LinkNodes(LinkNodes(built, background, self),
                                         progress, self)
                   /\ player' = [player EXCEPT
                                    !.max_health = PLAYER_STARTING_HEALTH,
                                    !.health = PLAYER_STARTING_HEALTH,
                                    !.health_bar_background = background,
                                    !.health_bar_progress = progress]
                   /\ UNCHANGED panic
    /\ UNCHANGED <<healed, spawner_vars, enemy_inited, plugin_vars, tick>>

\* Player::on_os_event
PlayerOnOsEvent(ev) ==
    /\ panic = "" /\ player_inited
    /\ player' = OnOsEvent(player, ev)
    /\ hook' = [name |-> "player_on_os_event"]
    /\ UNCHANGED <<graph, player_inited, healed, spawner_vars, enemy_inited, panic, plugin_vars, tick>>

\* A call of Player::take_damage(damage) from outside the script.
PlayerTakeDamage(damage) ==
    /\ panic = "" /\ player_inited
    /\ player.health - damage >= -HealthSpan
    /\ player.health - damage <= player.max_health + HealthSpan
    /\ player' = TakeDamage(player, damage)
    /\ healed' = (healed \/ damage < 0)
    /\ hook' = [name |-> "player_take_damage"]
    /\ UNCHANGED <<graph, player_inited, spawner_vars, enemy_inited, panic, plugin_vars, tick>>

\* on_update's velocity part that also steps the body by a frame of its
\* velocity.
WithPlayerVelocity_AlsoMoves(g, self, p) ==
    IF g[self].kind = "RigidBody"
    THEN LET v == <<AxisSpeed(p.move_left, p.move_right),
                    AxisSpeed(p.move_up, p.move_down)>>
         IN  [g EXCEPT ![self].lin_vel = v,
                       ![self].pos = <<g[self].pos[1] + v[1] \div 100,
                                       g[self].pos[2] + v[2] \div 100>>]
    ELSE g

\* The graph after on_update's velocity part on the node `self`.
WithPlayerVelocity(g, self, p) ==
    IF g[self].kind = "RigidBody"
    THEN [g EXCEPT ![self].lin_vel =
            <<AxisSpeed(p.move_left, p.move_right), AxisSpeed(p.move_up, p.move_down)>>]
    ELSE g

\* The graph after on_update's health-bar part: the x-scale is written when it
\* differs, the y- and z-scale are written back as read.
WithHealthBar(g, p) ==
    LET bar == p.health_bar_progress
        health_bar_scale == g[bar].scale
        new_health == NewHealth(p)
    IN  IF health_bar_scale[1] # new_health
        THEN [g EXCEPT ![bar].scale =
                <<new_health, health_bar_scale[2], health_bar_scale[3]>>]
        ELSE g

\* Player::on_update
PlayerOnUpdate ==
    /\ panic = "" /\ player_inited
    /\ LET self == FindByName(graph, "Player")
           g == WithPlayerVelocity(graph, self, player)
           bar == player.health_bar_progress
       IN  /\ self # NONE
           /\ IF IsValidHandle(g, bar) /\ g[bar].kind = "Rectangle"
              THEN graph' = WithHealthBar(g, player) /\ UNCHANGED panic
              ELSE \* graph[handle] or as_rectangle_mut() panics
                   graph' = g /\ panic' = "health bar: invalid handle or node type"
    /\ hook' = [name |-> "player_on_update"]
    /\ UNCHANGED <<player_vars, spawner_vars, enemy_inited, plugin_vars>>
    /\ RunsInTick(ScriptPlayer)


-----------------------------------------------------------------------------
(* Enemy *)

\* The value standing for an f32 NaN in a velocity component.
NAN == -1000000

RECURSIVE SqrtBetween(_, _, _)
\* The integer r with lo <= r < hi and r * r <= n < (r + 1) * (r + 1).
SqrtBetween(n, lo, hi) ==
    IF hi - lo <= 1 THEN lo
    ELSE LET mid == (lo + hi) \div 2
         IN  IF mid * mid <= n THEN SqrtBetween(n, mid, hi)
             ELSE SqrtBetween(n, lo, mid)

\* f32::sqrt of a sum of squares, in hundredths.
SqrtHundredths(n) == SqrtBetween(n * 10000, 0, n * 100 + 1)

\* dir * factor, in hundredths, truncated toward zero.
Scaled(dir, speed, length) ==
    IF dir >= 0 THEN (dir * speed * 100) \div length
    ELSE -((-dir * speed * 100) \div length)

\* PursuitVelocity without the division by the distance.
PursuitVelocity_Unnormalised(self_position, player_position, speed) ==
    <<(player_position[1] - self_position[1]) * speed,
      (player_position[2] - self_position[2]) * speed>>

\* The velocity move_towards_player computes: dir * (speed / |dir|).  With the
\* two bodies at one position the factor is speed / 0 and both products are NaN.
PursuitVelocity(self_position, player_position, speed) ==
    LET dir_x == player_position[1] - self_position[1]
        dir_y == player_position[2] - self_position[2]
        length == SqrtHundredths(dir_x * dir_x + dir_y * dir_y)
    IN  IF length = 0 THEN <<NAN, NAN>>
        ELSE <<Scaled(dir_x, speed, length), Scaled(dir_y, speed, length)>>

\* TryGet that hands out a node a second time.
TryGet_Aliasing(g, borrowed, h) == IsValidHandle(g, h)

\* MultiBorrowContext::try_get: the handle resolves and is not borrowed yet.
TryGet(g, borrowed, h) == IsValidHandle(g, h) /\ h \notin borrowed

\* cast_mut::<RigidBody>() on a borrowed node
IsRigidBody(g, h) == g[h].kind = "RigidBody"

\* Whether move_towards_player reaches set_lin_vel for the script e.
CanPursue(g, e) ==
    /\ TryGet(g, {}, e.handle)
    /\ TryGet(g, {e.handle}, e.player_handle)
    /\ IsRigidBody(g, e.handle)
    /\ IsRigidBody(g, e.player_handle)

\* move_towards_player that sets the player's velocity as well.
MoveTowardsPlayer_MovesPlayer(g, e) ==
    IF CanPursue(g, e)
    THEN LET v == PursuitVelocity(g[e.handle].pos, g[e.player_handle].pos, e.speed)
         IN  [g EXCEPT ![e.handle].lin_vel = v, ![e.player_handle].lin_vel = v]
    ELSE g

\* Enemy::move_towards_player: the graph it leaves.
MoveTowardsPlayer(g, e) ==
    IF CanPursue(g, e)
    THEN [g EXCEPT ![e.handle].lin_vel =
            PursuitVelocity(g[e.handle].pos, g[e.player_handle].pos, e.speed)]
    ELSE g

\* The children of a node, in pool order.
Children(g, h) == {c \in 1..Len(g) : g[c].kind # "Vacant" /\ g[c].parent = h}

\* on_init's loop with a break at the first collider child.
PlayerColliderOf_First(g, h, before) ==
    LET colliders == {c \in Children(g, h) : g[c].kind = "Collider"}
    IN  IF colliders = {} THEN before
        ELSE CHOOSE c \in colliders : \A k \in colliders : c <= k

\* on_init's loop over the player's children: every collider child is
\* assigned in turn, so the last one stays.
PlayerColliderOf(g, h, before) ==
    LET colliders == {c \in Children(g, h) : g[c].kind = "Collider"}
    IN  IF colliders = {} THEN before
        ELSE CHOOSE c \in colliders : \A k \in colliders : k <= c

\* Enemy::on_init of the script on node self.
EnemyOnInit(self) ==
    /\ panic = ""
    /\ IsValidHandle(graph, self) /\ graph[self].script = "Enemy"
    /\ self \notin enemy_inited
    /\ enemy_inited' = enemy_inited \cup {self}
    /\ LET found == FindByName(graph, "Player")
           e == [graph[self].enemy EXCEPT !.handle = self]
       IN  graph' = [graph EXCEPT ![self].enemy =
                IF found = NONE THEN e
                ELSE [e EXCEPT !.player_handle = found,
                               !.player_collider =
                                   PlayerColliderOf(graph, found, e.player_collider)]]
    /\ hook' = [name |-> "enemy_on_init", self |-> self]
    /\ UNCHANGED <<player_vars, spawner_vars, panic, plugin_vars, tick>>

\* Enemy::on_update of the script on node self.
EnemyOnUpdate(self) ==
    /\ panic = ""
    /\ self \in enemy_inited
    /\ graph' = MoveTowardsPlayer(graph, graph[self].enemy)
    /\ hook' = [name |-> "enemy_on_update", self |-> self]
    /\ UNCHANGED <<player_vars, spawner_vars, enemy_inited, panic, plugin_vars>>
    /\ RunsInTick(ScriptEnemy(self))

\* The host's physics step moves a rigid body.
HostMoveBody(h, p) ==
    /\ panic = ""
    /\ IsValidHandle(graph, h) /\ graph[h].kind = "RigidBody"
    /\ graph[h].pos # p
    /\ graph' = [graph EXCEPT ![h].pos = p]
    /\ hook' = [name |-> "physics"]
    /\ UNCHANGED <<player_vars, spawner_vars, enemy_inited, panic, plugin_vars, tick>>

-----------------------------------------------------------------------------
(* The plugin (game/src/lib.rs): script registration, scene loading and the *)
(* tile map.  A scene record holds the tiles build_tilemap added to the     *)
(* scene's graph, in build order; UV coordinates are thousandths of the     *)
(* sprite sheet.                                                            *)

PLAYER_UUID == "85e2051e-d569-4bcf-b590-2483bda17302"
ENEMY_UUID == "52295cf9-80b1-4b90-8504-e27e262713c5"
ENEMY_SPAWNER_UUID == "745dcf2b-913a-4d6f-9a5c-738acf0a45c4"

\* script_constructors.add::<T>(name): the constructor is kept under T's UUID.
AddScript(reg, uuid, name) == reg \cup {[uuid |-> uuid, name |-> name]}

\* The registry GameConstructor::register leaves.
Registered(reg) == AddScript(reg, PLAYER_UUID, "Player")

\* GameConstructor::register
Register ==
    /\ panic = "" /\ plugin.state = "unregistered"
    /\ registry' = Registered(registry)
    /\ plugin' = [plugin EXCEPT !.state = "registered"]
    /\ hook' = [name |-> "register"]
    /\ UNCHANGED <<scenes, loader, build, script_vars, tick, panic>>

\* Game::new: the plugin holds no scene.
GameNew == [state |-> "created", scene |-> NONE]

\* GameConstructor::create_instance: Game::new requests the scene.
CreateInstance ==
    /\ panic = "" /\ plugin.state = "registered"
    /\ plugin' = GameNew
    /\ loader' = "requested"
    /\ hook' = [name |-> "create_instance"]
    /\ UNCHANGED <<registry, scenes, build, script_vars, tick, panic>>

\* A scene as the loader hands it over, and the slot a removed scene leaves.
LoadedScene == [alive |-> TRUE, builds |-> 0, tiles |-> <<>>]
RemovedScene == [alive |-> FALSE, builds |-> 0, tiles |-> <<>>]

IsAliveScene(ss, h) == h \in 1..Len(ss) /\ ss[h].alive

\* SceneContainer::remove
RemoveScene(ss, h) == [ss EXCEPT ![h] = RemovedScene]

\* on_scene_begin_loading that removes nothing.
SceneToRemove_Never(p) == NONE

\* The scene on_scene_begin_loading removes: the held one, if any.
SceneToRemove(p) == IF p.scene # NONE THEN p.scene ELSE NONE

BuildIdle == [pc |-> "idle", scene |-> NONE, x |-> 0, y |-> 0, uv |-> <<0, 0>>]

\* Game::on_scene_begin_loading.  Freeing a handle that is not alive panics
\* in the pool.
OnSceneBeginLoading ==
    /\ panic = "" /\ plugin.state = "created"
    /\ loader = "requested" /\ build = BuildIdle
    /\ loader' = "loading"
    /\ LET h == SceneToRemove(plugin)
       IN  IF h = NONE THEN UNCHANGED <<scenes, panic>>
           ELSE IF IsAliveScene(scenes, h)
           THEN scenes' = RemoveScene(scenes, h) /\ UNCHANGED panic
           ELSE panic' = "pool free: invalid handle" /\ UNCHANGED scenes
    /\ hook' = [name |-> "on_scene_begin_loading"]
    /\ UNCHANGED <<registry, plugin, build, script_vars, tick>>

\* The first iteration of build_tilemap's loops on the graph of scene h.
BuildStart(h) ==
    [pc |-> "tile", scene |-> h, x |-> MIN_MAP_XY - 1, y |-> MIN_MAP_XY - 1,
     uv |-> <<0, 0>>]

\* Game::on_scene_loaded up to the call of build_tilemap: the host has added
\* the loaded scene to its container and hands over the handle.
OnSceneLoaded ==
    /\ panic = "" /\ plugin.state = "created"
    /\ loader = "loading" /\ build = BuildIdle
    /\ loader' = "idle"
    /\ LET h == Len(scenes) + 1
       IN  /\ scenes' = Append(scenes, [LoadedScene EXCEPT !.builds = 1])
           /\ plugin' = [plugin EXCEPT !.scene = h]
           /\ build' = BuildStart(h)
    /\ hook' = [name |-> "on_scene_loaded"]
    /\ UNCHANGED <<registry, script_vars, tick, panic>>

\* The boundary test with the y axis left out.
IsBoundary_XOnly(x, y) == Abs(x) = MAX_MAP_XY + 1

\* build_tilemap's boundary test
IsBoundary(x, y) == Abs(x) = MAX_MAP_XY + 1 \/ Abs(y) = MAX_MAP_XY + 1

\* tile_position
TilePosition(x, y) == <<x + MAP_OFFSET, y + MAP_OFFSET>>

\* The static rigid body of a boundary cell, with its collider and its stone
\* sprite as children.
BoundaryTile(x, y) ==
    [cell |-> <<x, y>>, name |-> "Boundary", pos |-> TilePosition(x, y),
     kind |-> "RigidBody", body_type |-> "Static",
     children |-> <<"Collider", "Rectangle">>]

\* The quad of a grass cell.
GrassTile(x, y) ==
    [cell |-> <<x, y>>, name |-> "Tile", pos |-> TilePosition(x, y),
     kind |-> "Rectangle", body_type |-> "", children |-> <<>>]

\* thread_rng().gen_range(0..=8) and gen_range(0..=4)
RandomTileX == 0..8
RandomTileY == 0..4

\* (random_tile * 10000) as f32 / 80000., in thousandths of the sheet.
UvCoordinate(random_tile) == (random_tile * 10000 * 1000) \div 80000

\* Width and height of a grass tile's UV rectangle: 0.125.
GRASS_UV_SIZE == 125

\* The loop position after the iteration (b.x, b.y): the inner loop runs y to
\* MAX_MAP_XY + 1, then the outer loop advances x; after the last cell
\* build_tilemap returns.
NextCell(b) ==
    IF b.y < MAX_MAP_XY + 1
    THEN [b EXCEPT !.pc = "tile", !.y = b.y + 1]
    ELSE IF b.x < MAX_MAP_XY + 1
    THEN [b EXCEPT !.pc = "tile", !.x = b.x + 1, !.y = MIN_MAP_XY - 1]
    ELSE BuildIdle

WithTile(ss, h, tile) == [ss EXCEPT ![h].tiles = Append(@, tile)]

\* One iteration of build_tilemap on a boundary cell.
BuildBoundaryTile ==
    /\ panic = "" /\ build.pc = "tile" /\ IsBoundary(build.x, build.y)
    /\ scenes' = WithTile(scenes, build.scene, BoundaryTile(build.x, build.y))
    /\ build' = [NextCell(build) EXCEPT !.uv = <<0, 0>>]
    /\ hook' = [name |-> "build_tilemap"]
    /\ UNCHANGED <<registry, plugin, loader, script_vars, tick, panic>>

\* An iteration on a grass cell, up to the UV coordinates drawn at random.
PickGrassUv ==
    /\ panic = "" /\ build.pc = "tile" /\ ~IsBoundary(build.x, build.y)
    /\ \E random_tile_x \in RandomTileX, random_tile_y \in RandomTileY :
          build' = [build EXCEPT !.pc = "grass",
                        !.uv = <<UvCoordinate(random_tile_x),
                                 UvCoordinate(random_tile_y)>>]
    /\ hook' = [name |-> "build_tilemap"]
    /\ UNCHANGED <<registry, plugin, scenes, loader, script_vars, tick, panic>>

\* The rest of the iteration: the quad is built with the UV rectangle
\* (build.uv, 0.125, 0.125) and added to the graph.
BuildGrassTile ==
    /\ panic = "" /\ build.pc = "grass"
    /\ scenes' = WithTile(scenes, build.scene, GrassTile(build.x, build.y))
    /\ build' = [NextCell(build) EXCEPT !.uv = <<0, 0>>]
    /\ hook' = [name |-> "build_tilemap"]
    /\ UNCHANGED <<registry, plugin, loader, script_vars, tick, panic>>

\* The host's loader is asked for a scene again.
HostRequestScene ==
    /\ panic = "" /\ plugin.state = "created"
    /\ loader = "idle" /\ build = BuildIdle
    /\ Len(scenes) < MaxScenes
    /\ loader' = "requested"
    /\ hook' = [name |-> "request"]
    /\ UNCHANGED <<registry, plugin, scenes, build, script_vars, tick, panic>>

\* No plugin: the state of the plugin's variables in the script models.
PluginIdle ==
    /\ registry = {}
    /\ plugin = [state |-> "unregistered", scene |-> NONE]
    /\ scenes = <<>>
    /\ loader = "idle"
    /\ build = BuildIdle

-----------------------------------------------------------------------------
(* Scenes the host may load. *)

PlayerNode(kind, p) ==
    [BaseNode(kind) EXCEPT !.name = "Player", !.pos = p, !.script = "Player"]

SpawnerNode == [BaseNode("Rectangle") EXCEPT !.name = "Spawner", !.script = "EnemySpawner"]

\* A scene with a spawner node and, possibly, a node named "Player".
SpawnerScenes ==
    {<<SpawnerNode>>} \cup
    {<<PlayerNode("RigidBody", p), SpawnerNode>> : p \in PlayerPositions}

PlayerIdle == player = PlayerDefault /\ player_inited = FALSE /\ healed = FALSE

\* The spawner as configured: through the builder calls, or by the scene file.
ConfiguredSpawner(cfg) ==
    IF cfg.via = "builder"
    THEN WithSpawnRadius(WithSpawnRate(EnemySpawnerNew, cfg.rate), cfg.radius)
    ELSE LoadedSpawner(cfg.rate, cfg.radius)

SpawnerCfgs ==
    [rate : ConfiguredRates, radius : Radii, via : {"builder", "scene"}]

SpawnerIdle ==
    /\ spawner_cfg = [rate |-> 0, radius |-> 0, via |-> "scene"]
    /\ spawner = ConfiguredSpawner(spawner_cfg)
    /\ spawner_inited = FALSE
    /\ spawned = 0

InitSpawner ==
    /\ graph \in SpawnerScenes
    /\ spawner_cfg \in SpawnerCfgs
    /\ spawner = ConfiguredSpawner(spawner_cfg)
    /\ spawner_inited = FALSE
    /\ spawned = 0
    /\ PlayerIdle
    /\ enemy_inited = {}
    /\ PluginIdle
    /\ TickIdle
    /\ panic = ""
    /\ hook = [name |-> ""]

NextSpawner ==
    \/ SpawnerOnInit
    \/ \E dt \in DTs : SpawnerOnUpdate(dt)
    \/ \E p \in PlayerPositions : HostMovePlayer(p)

SpecSpawner == InitSpawner /\ [][NextSpawner]_vars

\* on_update under a constant frame time: every update gets the dt of the
\* update before it.
ConstantDtUpdate(dt) ==
    /\ hook.name = "spawner_on_update" => hook.dt = dt
    /\ SpawnerOnUpdate(dt)

\* The spawner ticked at a constant, positive frame time; the player rests.
NextSpawnTiming ==
    \/ SpawnerOnInit
    \/ \E dt \in DTs \ {0} : ConstantDtUpdate(dt)

SpecSpawnTiming == InitSpawner /\ [][NextSpawnTiming]_vars

\* Enemy archetypes a spawner is given: the default one and two configured.
Archetypes ==
    {TypesEnemyNew,
     [name |-> "zombie", speed |-> 200, scale |-> 150, attack_damage |-> 10,
      attack_speed |-> 50],
     [name |-> "bat", speed |-> 350, scale |-> 50, attack_damage |-> 5,
      attack_speed |-> 25]}

\* A spawner with a configured archetype in a scene with a player.
InitSpawnArchetype ==
    /\ graph \in {<<PlayerNode("RigidBody", p), SpawnerNode>> : p \in PlayerPositions}
    /\ spawner_cfg \in {c \in SpawnerCfgs : c.radius \in {1, 5}}
    /\ \E enemy \in Archetypes :
          spawner = WithEnemy(ConfiguredSpawner(spawner_cfg), enemy)
    /\ spawner_inited = FALSE
    /\ spawned = 0
    /\ PlayerIdle
    /\ PluginIdle
    /\ TickIdle
    /\ enemy_inited = {}
    /\ panic = ""
    /\ hook = [name |-> ""]

SpecSpawnArchetype == InitSpawnArchetype /\ [][NextSpawnTiming]_vars

\* Events the host delivers to on_os_event.
Keys == {"KeyA", "KeyD", "KeyW", "KeyS", "Space"}
OsEvents ==
    [kind : {"WindowEvent"}, window : {"KeyboardInput"}, key : Keys,
     state : {"Pressed", "Released"}]
    \cup {[kind |-> "WindowEvent", window |-> "CursorMoved", key |-> "KeyA",
           state |-> "Pressed"],
          [kind |-> "DeviceEvent", window |-> "KeyboardInput", key |-> "KeyD",
           state |-> "Pressed"]}

\* Scenes with a node named "Player" that carries the Player script.
PlayerScenes ==
    {<<PlayerNode(kind, <<0, 0>>)>> : kind \in {"RigidBody", "Rectangle"}}

InitPlayer ==
    /\ graph \in PlayerScenes
    /\ PlayerIdle
    /\ SpawnerIdle
    /\ enemy_inited = {}
    /\ PluginIdle
    /\ TickIdle
    /\ panic = ""
    /\ hook = [name |-> ""]

NextPlayer ==
    \/ PlayerOnInit
    \/ \E ev \in OsEvents : PlayerOnOsEvent(ev)
    \/ \E damage \in Damages : PlayerTakeDamage(damage)
    \/ PlayerOnUpdate

SpecPlayer == InitPlayer /\ [][NextPlayer]_vars

\* An empty slot of the pool: a handle to it dangles.
VacantNode == BaseNode("Vacant")

\* A node of the scene file that carries an Enemy script.
EnemyNode(kind, name, p, speed, player_handle) ==
    [BaseNode(kind) EXCEPT
        !.name = name, !.pos = p, !.script = "Enemy",
        !.enemy = [EnemyNew EXCEPT !.speed = speed, !.starting_position = p,
                                   !.player_handle = player_handle]]

\* Slot 1 of an enemy scene: a node named "Player", or nothing.
EnemyScenePlayers ==
    {VacantNode} \cup
    {PlayerNode(kind, p) : kind \in {"RigidBody", "Rectangle"}, p \in BodyPositions}

\* Slot 2 of an enemy scene: the enemy, as a rigid body or (a scene error) a
\* rectangle, possibly itself named "Player", with the player handle the
\* scene file stored: unset, slot 1, or a slot beyond the pool.
EnemySceneEnemies ==
    {EnemyNode(kind, name, p, speed, ph) :
        kind \in {"RigidBody", "Rectangle"}, name \in {"", "Player"},
        p \in BodyPositions, speed \in EnemySpeeds, ph \in {NONE, 1, 3}}

EnemyScenes == {<<p, e>> : p \in EnemyScenePlayers, e \in EnemySceneEnemies}

InitEnemy ==
    /\ graph \in EnemyScenes
    /\ PlayerIdle
    /\ SpawnerIdle
    /\ enemy_inited = {}
    /\ PluginIdle
    /\ TickIdle
    /\ panic = ""
    /\ hook = [name |-> ""]

NextEnemy ==
    \/ \E self \in 1..Len(graph) : EnemyOnInit(self)
    \/ \E self \in 1..Len(graph) : EnemyOnUpdate(self)
    \/ \E h \in 1..Len(graph), p \in BodyPositions : HostMoveBody(h, p)

SpecEnemy == InitEnemy /\ [][NextEnemy]_vars

\* Slots 3 and 4 of an initialisation scene: colliders and rectangles that
\* are children of the node in slot 1 or stand alone.
EnemyInitSceneChildren ==
    {[BaseNode(kind) EXCEPT !.parent = parent] :
        kind \in {"Collider", "Rectangle"}, parent \in {NONE, 1}}

\* Scenes for Enemy::on_init: a player (or nothing) in slot 1, the enemy in
\* slot 2 and two more nodes; an empty slot 1 has no children.
EnemyInitScenes ==
    {s \in {<<p, e, c1, c2>> :
                p \in EnemyScenePlayers, e \in EnemySceneEnemies,
                c1 \in EnemyInitSceneChildren, c2 \in EnemyInitSceneChildren} :
        s[1].kind = "Vacant" => s[3].parent = NONE /\ s[4].parent = NONE}

InitEnemyInit ==
    /\ graph \in EnemyInitScenes
    /\ PlayerIdle
    /\ SpawnerIdle
    /\ PluginIdle
    /\ TickIdle
    /\ enemy_inited = {}
    /\ panic = ""
    /\ hook = [name |-> ""]

NextEnemyInit ==
    \/ \E self \in 1..Len(graph) : EnemyOnInit(self)
    \/ \E self \in 1..Len(graph) : EnemyOnUpdate(self)

SpecEnemyInit == InitEnemyInit /\ [][NextEnemyInit]_vars

\* Something outside the Player script (another script, the editor) removes
\* the node of the health-bar progress quad: its slot is freed and the handle
\* the script cached dangles.
HostRemoveNode(h) ==
    /\ panic = "" /\ player_inited
    /\ h = player.health_bar_progress
    /\ IsValidHandle(graph, h)
    /\ graph' = [graph EXCEPT ![h] = VacantNode]
    /\ hook' = [name |-> "remove_node"]
    /\ UNCHANGED <<player_vars, spawner_vars, enemy_inited, plugin_vars, tick, panic>>

\* The Player script in a scene whose health-bar node may be removed.
NextPlayerHost ==
    \/ NextPlayer
    \/ \E h \in 1..Len(graph) : HostRemoveNode(h)

SpecPlayerHost == InitPlayer /\ [][NextPlayerHost]_vars

\* The plugin from registration on; no script runs.
InitPlugin ==
    /\ PluginIdle
    /\ TickIdle
    /\ graph = <<>>
    /\ PlayerIdle
    /\ SpawnerIdle
    /\ enemy_inited = {}
    /\ panic = ""
    /\ hook = [name |-> ""]

NextPlugin ==
    \/ Register
    \/ CreateInstance
    \/ HostRequestScene
    \/ OnSceneBeginLoading
    \/ OnSceneLoaded
    \/ BuildBoundaryTile
    \/ PickGrassUv
    \/ BuildGrassTile

SpecPlugin == InitPlugin /\ [][NextPlugin]_vars

\* A load that never completes: the loader gives up on the scene it was
\* loading.  Game overrides no hook for this, so the plugin does nothing.
HostLoadFails ==
    /\ panic = "" /\ plugin.state = "created"
    /\ loader = "loading" /\ build = BuildIdle
    /\ loader' = "idle"
    /\ hook' = [name |-> "load_failed"]
    /\ UNCHANGED <<registry, plugin, scenes, build, script_vars, tick, panic>>

\* The plugin under loads that may fail.
NextPluginFailedLoad ==
    \/ NextPlugin
    \/ HostLoadFails

SpecPluginFailedLoad == InitPlugin /\ [][NextPluginFailedLoad]_vars

\* The scripts the host updates in a frame: one per node that carries one.
ScriptsOf(g) ==
    {ScriptPlayer : h \in {k \in 1..Len(g) : g[k].script = "Player"}}
    \cup {ScriptSpawner : h \in {k \in 1..Len(g) : g[k].script = "EnemySpawner"}}
    \cup {ScriptEnemy(h) : h \in {k \in 1..Len(g) : g[k].script = "Enemy"}}

\* Every script of the scene has had its on_init.
ScriptsStarted ==
    /\ player_inited /\ spawner_inited
    /\ \A h \in 1..Len(graph) : graph[h].script = "Enemy" => h \in enemy_inited

\* The host starts a frame once every script is initialised: each script's
\* on_update is pending, and the frame keeps the state it started from.
TickBegin(dt) ==
    /\ panic = "" /\ ~tick.active
    /\ ScriptsStarted
    /\ spawned < MaxEnemies
    /\ tick' = [active |-> TRUE, pending |-> ScriptsOf(graph), dt |-> dt,
                start |-> [graph |-> graph, player |-> player,
                           spawner |-> spawner, spawned |-> spawned]]
    /\ hook' = [name |-> "frame_begin"]
    /\ UNCHANGED <<script_vars, plugin_vars, panic>>

\* The frame's script pass is over once every on_update has run.
TickEnd ==
    /\ panic = "" /\ tick.active /\ tick.pending = {}
    /\ tick' = NoTick
    /\ hook' = [name |-> "frame_end"]
    /\ UNCHANGED <<script_vars, plugin_vars, panic>>

\* The on_update hooks as the frame invokes them, in any order; the spawner
\* gets the frame's dt.
TickPlayerUpdate == tick.active /\ PlayerOnUpdate
TickEnemyUpdate(self) == tick.active /\ EnemyOnUpdate(self)
TickSpawnerUpdate == tick.active /\ SpawnerOnUpdate(tick.dt)

\* Scripts are initialised before the first frame; between frames input and
\* damage arrive, and physics moves the player.
FramePlayerInit == ~tick.active /\ PlayerOnInit
FrameSpawnerInit == ~tick.active /\ SpawnerOnInit
FrameEnemyInit(self) == ~tick.active /\ EnemyOnInit(self)
FrameOsEvent(ev) == ~tick.active /\ ScriptsStarted /\ PlayerOnOsEvent(ev)
FrameDamage(damage) == ~tick.active /\ ScriptsStarted /\ PlayerTakeDamage(damage)
FramePhysics(p) == ~tick.active /\ ScriptsStarted /\ HostMovePlayer(p)

\* Key events of the "D" key.
FrameEvents == {ev \in OsEvents : ev.kind = "WindowEvent" /\ ev.key = "KeyD"}

\* Frame times of the frame scene, in hundredths of a second.
FrameDTs == {10, 30}

\* Damage a frame's player takes.
FrameDamages == {75}

\* Spawner configurations of the frame scene: built with the default rate
\* and a radius of 0 or 1.
FrameSpawnerCfgs ==
    {c \in SpawnerCfgs : c.via = "builder" /\ c.rate = 10 /\ c.radius \in {0, 1}}

\* Where the scene file puts the enemy: on the player's starting position
\* or away from it.
FrameEnemyPositions ==
    {<<MAP_OFFSET, MAP_OFFSET>>, <<MAP_OFFSET + 3, MAP_OFFSET + 4>>}

\* A scene with the player, one enemy and the spawner.
FrameScenes ==
    {<<PlayerNode("RigidBody", p), EnemyNode("RigidBody", "", q, speed, NONE),
       SpawnerNode>> :
        p \in {<<0, 0>>}, q \in FrameEnemyPositions, speed \in {200}}

InitFrame ==
    /\ graph \in FrameScenes
    /\ spawner_cfg \in FrameSpawnerCfgs
    /\ spawner = ConfiguredSpawner(spawner_cfg)
    /\ spawner_inited = FALSE
    /\ spawned = 0
    /\ PlayerIdle
    /\ PluginIdle
    /\ TickIdle
    /\ enemy_inited = {}
    /\ panic = ""
    /\ hook = [name |-> ""]

NextFrame ==
    \/ FramePlayerInit
    \/ FrameSpawnerInit
    \/ \E self \in 1..Len(graph) : FrameEnemyInit(self)
    \/ \E ev \in FrameEvents : FrameOsEvent(ev)
    \/ \E damage \in FrameDamages : FrameDamage(damage)
    \/ \E p \in PlayerPositions : FramePhysics(p)
    \/ \E dt \in FrameDTs : TickBegin(dt)
    \/ TickPlayerUpdate
    \/ \E self \in 1..Len(graph) : TickEnemyUpdate(self)
    \/ TickSpawnerUpdate
    \/ TickEnd

SpecFrame == InitFrame /\ [][NextFrame]_vars

-----------------------------------------------------------------------------
(* Properties of the spawner, checked under SpecSpawner. *)

\* A step of EnemySpawner::on_update that did not panic.
SpawnerTick == hook'.name = "spawner_on_update" /\ panic' = ""

\* C1: on every on_update that returns, an enemy is spawned if and only if the
\* accumulated timer is at least the configured period plus 0.05 s, however
\* the period was configured; the timer is 0 after a spawn and has grown by
\* exactly dt otherwise.
C1_FiresAtConfiguredRatePlusPad ==
    [][SpawnerTick =>
        /\ (spawned' = spawned + 1) <=>
              (hook'.timer >= spawner_cfg.rate + SPAWN_RATE_PAD)
        /\ (spawned' = spawned + 1) => spawner'.spawn_timer = 0
        /\ (spawned' = spawned) =>
              spawner'.spawn_timer = spawner.spawn_timer + hook'.dt]_vars

\* C2: every enemy spawn_enemy creates starts inside the offset arena bounds
\* and within spawn_radius (per axis) of the player's position at that time;
\* with the player in the upper corner and radius 5 the rectangle sampled is
\* [MAX-5, MAX] x [MAX-5, MAX].
C2_SpawnInsideClampedRect ==
    [][spawned' = spawned + 1 =>
        LET e == graph'[Len(graph')]
            p == graph[spawner.player_handle].pos
            r == spawner.spawn_radius
            lo == MIN_MAP_XY_WITH_OFFSET
            hi == MAX_MAP_XY_WITH_OFFSET
        IN  /\ e.script = "Enemy" /\ e.kind = "RigidBody"
            /\ e.pos = e.enemy.starting_position
            /\ lo <= e.pos[1] /\ e.pos[1] <= hi
            /\ lo <= e.pos[2] /\ e.pos[2] <= hi
            /\ Abs(e.pos[1] - p[1]) <= r
            /\ Abs(e.pos[2] - p[2]) <= r
            /\ (p = <<hi, hi>> /\ r = 5) =>
                  /\ SpawnRect(p, r) = [min_x |-> hi - 5, max_x |-> hi,
                                        min_y |-> hi - 5, max_y |-> hi]
                  /\ e.pos[1] \in (hi - 5)..hi
                  /\ e.pos[2] \in (hi - 5)..hi]_vars

\* C2's case: an enemy spawned at the low corner of the clamped rectangle while
\* the player stands in the arena's upper corner and the radius is 5.
C2_Witness ==
    /\ hook.name = "spawner_on_update" /\ spawned = 1
    /\ spawner.spawn_radius = 5
    /\ IsValidHandle(graph, spawner.player_handle)
    /\ graph[spawner.player_handle].pos =
          <<MAX_MAP_XY_WITH_OFFSET, MAX_MAP_XY_WITH_OFFSET>>
    /\ graph[Len(graph)].pos =
          <<MAX_MAP_XY_WITH_OFFSET - 5, MAX_MAP_XY_WITH_OFFSET - 5>>

\* The rectangle spawn_enemy would sample is empty along an axis.
RectDegenerate ==
    /\ IsValidHandle(graph, spawner.player_handle)
    /\ LET rect == SpawnRect(graph[spawner.player_handle].pos, spawner.spawn_radius)
       IN  rect.min_x >= rect.max_x \/ rect.min_y >= rect.max_y

\* C3: with a degenerate spawn rectangle the spawner's update returns without
\* a failure and the script stays alive.
C3_DegenerateRectReturnsSilently ==
    (spawner_inited /\ RectDegenerate) => panic = ""

\* C4: a spawner whose on_init found no "Player" node never fails, whatever
\* updates follow.
C4_InertWithoutPlayer ==
    (spawner_inited /\ spawner.player_handle = NONE) => panic = ""

-----------------------------------------------------------------------------
(* Properties of the player, checked under SpecPlayer. *)

\* The player's node and its progress bar's scale.
PlayerHandle == FindByName(graph, "Player")
BarScale == graph[player.health_bar_progress].scale

\* C5: after every on_update on a rigid-body player node the linear velocity
\* is (vx, vy) with vx = +3 if only left is held, -3 if only right is held and
\* 0 otherwise, and vy likewise for up and down.
C5_VelocityFromKeys ==
    (hook.name = "player_on_update" /\ graph[PlayerHandle].kind = "RigidBody") =>
        LET v == graph[PlayerHandle].lin_vel IN
        /\ (player.move_left /\ ~player.move_right) => v[1] = 300
        /\ (~player.move_left /\ player.move_right) => v[1] = -300
        /\ (player.move_left = player.move_right) => v[1] = 0
        /\ (player.move_up /\ ~player.move_down) => v[2] = 300
        /\ (~player.move_up /\ player.move_down) => v[2] = -300
        /\ (player.move_up = player.move_down) => v[2] = 0
        /\ Abs(v[1]) \in {0, 300} /\ Abs(v[2]) \in {0, 300}

\* C5's case: the end of scenario S2, only D held, velocity (-3, 0).
C5_Witness ==
    /\ hook.name = "player_on_update"
    /\ ~player.move_left /\ player.move_right
    /\ ~player.move_up /\ ~player.move_down
    /\ graph[PlayerHandle].lin_vel = <<-300, 0>>

\* What an OS event is expected to leave of the four booleans.
KeyEffect(p, q, ev) ==
    LET keyboard == ev.kind = "WindowEvent" /\ ev.window = "KeyboardInput"
        pressed == ev.state = "Pressed"
        hit(key) == keyboard /\ ev.key = key
    IN  /\ q.move_left = IF hit("KeyA") THEN pressed ELSE p.move_left
        /\ q.move_right = IF hit("KeyD") THEN pressed ELSE p.move_right
        /\ q.move_up = IF hit("KeyW") THEN pressed ELSE p.move_up
        /\ q.move_down = IF hit("KeyS") THEN pressed ELSE p.move_down

\* C6: an OS event sets exactly the boolean mapped to its key (A left, D
\* right, W up, S down) to the pressed state; other keys and non-keyboard
\* events change none; the same event twice leaves what once leaves; and no OS
\* event changes health, max_health, the bar handles or any node (velocity).
C6_OsEventSetsOnlyItsKey ==
    [][\A ev \in OsEvents : PlayerOnOsEvent(ev) =>
        /\ KeyEffect(player, player', ev)
        /\ OnOsEvent(player', ev) = player'
        /\ player'.health = player.health
        /\ player'.max_health = player.max_health
        /\ player'.health_bar_background = player.health_bar_background
        /\ player'.health_bar_progress = player.health_bar_progress
        /\ graph' = graph]_vars

\* C6's case: D was pressed after an update with only A held; the booleans
\* changed and the velocity is still the one of that update.
C6_Witness ==
    /\ hook.name = "player_on_os_event"
    /\ player.move_left /\ player.move_right
    /\ ~player.move_up /\ ~player.move_down
    /\ graph[PlayerHandle].lin_vel = <<300, 0>>

\* C7: at the end of every on_update the progress bar's x-scale is
\* max(health / max_health, 0) * MAX_HEALTH_BAR_WIDTH (0 for health <= 0, a
\* quarter of the width for health 25 of 100) and its y- and z-scale are those
\* before the update.
C7_BarTracksHealth ==
    [][(hook'.name = "player_on_update" /\ panic' = "") =>
        LET before == graph[player.health_bar_progress].scale
            after == graph'[player.health_bar_progress].scale
        IN  /\ player.health <= 0 => after[1] = 0
            /\ player.health > 0 =>
                  after[1] * player.max_health = player.health * MAX_HEALTH_BAR_WIDTH
            /\ (player.health = 25 /\ player.max_health = 100) =>
                  4 * after[1] = MAX_HEALTH_BAR_WIDTH
            /\ after[2] = before[2]
            /\ after[3] = before[3]]_vars

\* C7's case: scenario S3, health 25 of 100 and the bar at a quarter width
\* with its initial height.
C7_Witness ==
    /\ hook.name = "player_on_update" /\ panic = ""
    /\ player.health = 25 /\ player.max_health = 100
    /\ BarScale = <<25, 25, 100>>

\* C8 as stated, for damage that is never negative: after on_init,
\* 0 <= health <= max_health.
C8_HealthWithinZeroAndMax ==
    (player_inited /\ panic = "" /\ ~healed) =>
        (0 <= player.health /\ player.health <= player.max_health)

\* C8 amended: after on_init max_health is 100 and, as long as no negative
\* damage was dealt, health <= max_health; health has no lower bound.
C8_HealthAtMostMax ==
    (player_inited /\ panic = "" /\ ~healed) =>
        /\ player.max_health = PLAYER_STARTING_HEALTH
        /\ player.health <= player.max_health

\* C8's case: damage beyond max_health has been taken, health is negative and
\* the update has drawn the bar at width 0.
C8_Witness ==
    /\ player_inited /\ panic = "" /\ ~healed
    /\ hook.name = "player_on_update"
    /\ player.health < 0
    /\ BarScale[1] = 0

\* C9: take_damage(d) sets health to health - d, unclamped, and changes no
\* other field of the script and no node (the bar keeps its scale until the
\* next on_update).
C9_TakeDamageSubtractsOnly ==
    [][\A d \in Damages : PlayerTakeDamage(d) =>
        /\ player'.health = player.health - d
        /\ \A f \in DOMAIN player \ {"health"} : player'[f] = player[f]
        /\ graph' = graph]_vars

\* C9's case: take_damage has just made health negative while the bar still
\* shows the width of the last update.
C9_Witness ==
    /\ hook.name = "player_take_damage"
    /\ player.health < 0
    /\ BarScale[1] > 0

-----------------------------------------------------------------------------
(* Properties of the enemy, checked under SpecEnemy. *)

\* The handles of the script e do not give move_towards_player two distinct
\* live rigid bodies.
CannotPursue(g, e) ==
    \/ ~IsValidHandle(g, e.handle)
    \/ ~IsValidHandle(g, e.player_handle)
    \/ e.handle = e.player_handle
    \/ g[e.handle].kind # "RigidBody"
    \/ g[e.player_handle].kind # "RigidBody"

\* C10: Enemy::on_update changes nothing and raises no failure when the
\* enemy's own handle or its player handle does not resolve (unset, dangling,
\* or refused by the multi-borrow because both name one node) or when either
\* node is not a rigid body.
C10_NoOpWithoutTwoBodies ==
    [][(hook'.name = "enemy_on_update"
            /\ CannotPursue(graph, graph[hook'.self].enemy)) =>
        /\ graph' = graph
        /\ panic' = ""
        /\ UNCHANGED <<player_vars, spawner_vars, enemy_inited, plugin_vars>>]_vars

\* C10's case: an enemy whose player handle is its own node (the multi-borrow
\* refuses the second borrow) has been updated and its velocity is untouched.
C10_Witness ==
    /\ hook.name = "enemy_on_update"
    /\ LET e == graph[hook.self].enemy
       IN  /\ e.handle = hook.self
           /\ e.player_handle = e.handle
           /\ e.speed > 0
           /\ graph[hook.self].kind = "RigidBody"
           /\ graph[hook.self].lin_vel = <<0, 0>>

\* The sign of an integer: -1, 0 or 1.
Sign(a) == IF a > 0 THEN 1 ELSE IF a < 0 THEN -1 ELSE 0

\* v is speed * D / |D| up to the rounding of the hundredths: v is parallel
\* to D, does not point away from it, and its length is within two
\* hundredths of |speed|.
IsPursuit(v, D, speed) ==
    /\ Abs(v[1] * D[2] - v[2] * D[1]) <= 2 * (Abs(D[1]) + Abs(D[2]))
    /\ v[1] * D[1] + v[2] * D[2] >= 0
    /\ v[1] * v[1] + v[2] * v[2] <= (Abs(speed) + 2) * (Abs(speed) + 2)
    /\ \/ Abs(speed) <= 2
       \/ v[1] * v[1] + v[2] * v[2] >= (Abs(speed) - 2) * (Abs(speed) - 2)

-----------------------------------------------------------------------------
(* Properties of the plugin, checked under SpecPlugin. *)

\* The cells build_tilemap covers on each axis.
TileRange == (MIN_MAP_XY - 1)..(MAX_MAP_XY + 1)

\* The tiles of a tile map that lie on a cell.
TilesOn(tiles, cell) == {i \in 1..Len(tiles) : tiles[i].cell = cell}

\* Scene h holds a tile map that build_tilemap has finished.
HasBuiltTilemap(h) ==
    h \in 1..Len(scenes) /\ scenes[h].alive /\ scenes[h].builds = 1 /\ build.scene # h

\* C12: after build_tilemap the scene holds exactly one tile for each cell
\* (x, y) with MIN_MAP_XY - 1 <= x, y <= MAX_MAP_XY + 1, that is
\* (MAX_MAP_XY - MIN_MAP_XY + 3)^2 = 529 tiles and no two on one cell; a tile
\* is a static rigid body with a collider child exactly when |x| or |y| is
\* MAX_MAP_XY + 1 (88 tiles), and a plain quad otherwise.
C12_OneTilePerCell ==
    \A h \in 1..Len(scenes) : HasBuiltTilemap(h) =>
        LET tiles == scenes[h].tiles
            side == MAX_MAP_XY - MIN_MAP_XY + 3
        IN  /\ Len(tiles) = side * side
            /\ Len(tiles) = 529
            /\ \A x \in TileRange, y \in TileRange :
                  Cardinality(TilesOn(tiles, <<x, y>>)) = 1
            /\ \A i \in 1..Len(tiles) :
                  LET t == tiles[i]
                      edge == \/ Abs(t.cell[1]) = MAX_MAP_XY + 1
                              \/ Abs(t.cell[2]) = MAX_MAP_XY + 1
                  IN  /\ t.cell[1] \in TileRange /\ t.cell[2] \in TileRange
                      /\ t.pos = <<t.cell[1] + MAP_OFFSET, t.cell[2] + MAP_OFFSET>>
                      /\ edge <=> (/\ t.kind = "RigidBody"
                                   /\ t.body_type = "Static"
                                   /\ \E c \in 1..Len(t.children) :
                                         t.children[c] = "Collider")
                      /\ ~edge => t.kind = "Rectangle" /\ t.children = <<>>
            /\ Cardinality({i \in 1..Len(tiles) : tiles[i].kind = "RigidBody"}) = 88

\* C12's case: build_tilemap has returned; the first scene holds 529 tiles,
\* a boundary body on the corner cell and a quad on the centre cell.
C12_Witness ==
    /\ build = BuildIdle
    /\ HasBuiltTilemap(1)
    /\ Len(scenes[1].tiles) = 529
    /\ \E i \in TilesOn(scenes[1].tiles, <<MIN_MAP_XY - 1, MAX_MAP_XY + 1>>) :
          scenes[1].tiles[i].kind = "RigidBody"
    /\ \E i \in TilesOn(scenes[1].tiles, <<0, 0>>) :
          scenes[1].tiles[i].kind = "Rectangle"

\* C13: the UV origin of every grass tile is (i/8, j/8) with 0 <= i <= 7 and
\* 0 <= j <= 3, so that its 0.125 x 0.125 rectangle lies inside
\* [0, 1] x [0, 0.5], the top half of the sprite sheet.
C13_GrassUvInsideTopHalf ==
    build.pc = "grass" =>
        /\ \E i \in 0..7, j \in 0..3 :
              build.uv = <<(i * 1000) \div 8, (j * 1000) \div 8>>
        /\ 0 <= build.uv[1] /\ build.uv[1] + GRASS_UV_SIZE <= 1000
        /\ 0 <= build.uv[2] /\ build.uv[2] + GRASS_UV_SIZE <= 500

\* The scenes of the container that are alive.
AliveScenes == {h \in 1..Len(scenes) : scenes[h].alive}

\* The plugin holds a scene, no load is under way and build_tilemap has
\* returned.
Settled ==
    /\ plugin.state = "created" /\ plugin.scene # NONE
    /\ loader # "loading" /\ build = BuildIdle

\* C14: the plugin holds no scene until the first scene is loaded; when a
\* load begins, the scene it holds is removed; when a scene is loaded it
\* stores the handle and runs build_tilemap once on that scene; so after any
\* number of begin-loading / loaded cycles exactly one scene is alive, the one
\* the plugin holds, and it contains exactly one tile map.
C14_OneSceneOneTilemap ==
    [][/\ (plugin.scene = NONE /\ plugin'.scene # NONE) =>
              hook'.name = "on_scene_loaded" /\ loader = "loading"
       /\ (hook'.name = "on_scene_begin_loading" /\ plugin.scene # NONE) =>
              /\ panic' = ""
              /\ ~IsAliveScene(scenes', plugin.scene)
              /\ AliveScenes' = {}
       /\ hook'.name = "on_scene_loaded" =>
              /\ plugin'.scene = Len(scenes')
              /\ plugin'.scene \notin 1..Len(scenes)
              /\ IsAliveScene(scenes', plugin'.scene)
              /\ scenes'[plugin'.scene].builds = 1
              /\ build'.scene = plugin'.scene
       /\ Settled' =>
              /\ AliveScenes' = {plugin'.scene}
              /\ scenes'[plugin'.scene].builds = 1
              /\ Len(scenes'[plugin'.scene].tiles) = 529
              /\ \A x \in TileRange, y \in TileRange :
                    Cardinality(TilesOn(scenes'[plugin'.scene].tiles, <<x, y>>)) = 1]_vars

\* C14's case: two cycles have run; the first scene is removed, the second
\* is held by the plugin and has its tile map.
C14_Witness ==
    /\ Settled
    /\ Len(scenes) = 2
    /\ ~scenes[1].alive
    /\ plugin.scene = 2
    /\ HasBuiltTilemap(2)
    /\ Len(scenes[2].tiles) = 529

\* C15: after GameConstructor::register the script registry holds the three
\* gameplay scripts Player, Enemy and EnemySpawner, each under its UUID.
C15_AllScriptsRegistered ==
    plugin.state # "unregistered" =>
        /\ [uuid |-> PLAYER_UUID, name |-> "Player"] \in registry
        /\ \E r \in registry : r.uuid = ENEMY_UUID
        /\ \E r \in registry : r.uuid = ENEMY_SPAWNER_UUID

-----------------------------------------------------------------------------
(* Properties of the nodes Enemy::build creates, checked under SpecSpawner. *)

\* The colliders Enemy::build made: the collider children of the nodes that
\* carry an Enemy script.
EnemyColliders ==
    {h \in 1..Len(graph) :
        /\ graph[h].kind = "Collider"
        /\ IsValidHandle(graph, graph[h].parent)
        /\ graph[graph[h].parent].script = "Enemy"}

\* C16 as stated: every collider Enemy::build makes has a membership mask with
\* exactly bit 30 set and a filter mask with every bit set except bits 0 and
\* 1 (bit 0 being the least significant).
C16_FilterExcludesLowestTwoBits ==
    \A h \in EnemyColliders :
        /\ \A i \in MaskBits : Bit(graph[h].groups.memberships, i) <=> i = 30
        /\ \A i \in MaskBits : Bit(graph[h].groups.filter, i) <=> i \notin {0, 1}

\* C16, amended: every collider Enemy::build makes has a 32-bit membership
\* mask with exactly bit 30 set and a filter mask with every bit set except
\* bits 30 and 31, the two most significant ones.
C16_FilterExcludesHighestTwoBits ==
    \A h \in EnemyColliders :
        /\ graph[h].groups.memberships \subseteq MaskBits
        /\ graph[h].groups.filter \subseteq MaskBits
        /\ \A i \in MaskBits : Bit(graph[h].groups.memberships, i) <=> i = 30
        /\ \A i \in MaskBits : Bit(graph[h].groups.filter, i) <=> i \notin {30, 31}

\* C16's case: spawn_enemy has built an enemy whose collider is in group bit
\* 30 and whose filter keeps bit 0 and drops bit 31.
C16_Witness ==
    /\ spawned >= 1
    /\ \E h \in EnemyColliders :
          /\ Bit(graph[h].groups.memberships, 30)
          /\ Bit(graph[h].groups.filter, 0)
          /\ ~Bit(graph[h].groups.filter, 31)

-----------------------------------------------------------------------------
(* Properties of the spawn timing, checked under SpecSpawnTiming. *)

\* The number of updates since the timer was last 0, the step's update
\* included: under a constant dt the timer the spawn test sees is that many
\* dt.
UpdatesSinceReset == hook'.timer \div hook'.dt

\* C17: with a constant dt = d > 0 and an effective period spawn_rate + 0.05
\* equal to k * d, starting from spawn_timer = 0 the spawner spawns on the
\* updates number k, 2k, 3k, ... and on no other: an update that returns
\* spawns exactly when it is the k-th since the start or since the last spawn.
C17_SpawnsOnEveryKthUpdate ==
    [][(/\ SpawnerTick
        /\ (spawner_cfg.rate + SPAWN_RATE_PAD) % hook'.dt = 0) =>
        LET k == (spawner_cfg.rate + SPAWN_RATE_PAD) \div hook'.dt
        IN  (spawned' = spawned + 1) <=> (UpdatesSinceReset = k)]_vars

-----------------------------------------------------------------------------
(* Properties of a single spawner update, checked under SpecSpawner. *)

\* The nodes of a graph that carry an Enemy script.
EnemyNodes(g) == {h \in 1..Len(g) : g[h].kind # "Vacant" /\ g[h].script = "Enemy"}

-----------------------------------------------------------------------------
(* Properties of the player whose health bar may be removed, checked under *)
(* SpecPlayerHost.                                                          *)

\* The handle does not resolve to a rectangle: it is unset, it dangles, or it
\* names a node of another kind.
NotARectangle(g, h) == ~IsValidHandle(g, h) \/ g[h].kind # "Rectangle"

\* C19: Player::on_update does not fail on an unresolvable health-bar handle:
\* when health_bar_progress is unset, dangling or names a node that is not a
\* rectangle, the health-bar part is skipped, the velocity part is applied
\* and the script keeps running.
C19_UpdateSkipsUnresolvableBar ==
    [][(/\ hook'.name = "player_on_update"
        /\ NotARectangle(graph, player.health_bar_progress)) =>
        /\ panic' = ""
        /\ graph' = WithPlayerVelocity(graph, PlayerHandle, player)]_vars

-----------------------------------------------------------------------------
(* Frame of the enemy's update, checked under SpecEnemy. *)

\* C20: an Enemy::on_update that reaches set_lin_vel changes only the enemy's
\* own linear velocity: the player's rigid body, every other node, the
\* enemy's position and script fields, the set of nodes and the parent links
\* are as before, and so is the state of the other scripts.
C20_UpdateWritesOwnVelocityOnly ==
    [][(/\ hook'.name = "enemy_on_update"
        /\ ~CannotPursue(graph, graph[hook'.self].enemy)) =>
        LET self == hook'.self
            player_handle == graph[self].enemy.player_handle
        IN  /\ Len(graph') = Len(graph)
            /\ \A h \in 1..Len(graph) : h # self => graph'[h] = graph[h]
            /\ graph'[player_handle] = graph[player_handle]
            /\ graph'[self] = [graph[self] EXCEPT !.lin_vel = graph'[self].lin_vel]
            /\ graph'[self].pos = graph[self].pos
            /\ graph'[self].enemy = graph[self].enemy
            /\ graph'[self].parent = graph[self].parent
            /\ panic' = ""
            /\ UNCHANGED <<player_vars, spawner_vars, enemy_inited, plugin_vars>>]_vars

\* C20's case: the enemy at (3, 4) has been updated with the player at
\* (0, 0); the enemy moves at (-1.2, -1.6) and the player's body is at rest
\* where it was.
C20_Witness ==
    /\ hook.name = "enemy_on_update"
    /\ ~CannotPursue(graph, graph[hook.self].enemy)
    /\ graph[hook.self].pos = <<3, 4>>
    /\ graph[hook.self].lin_vel = <<-120, -160>>
    /\ graph[graph[hook.self].enemy.player_handle].pos = <<0, 0>>
    /\ graph[graph[hook.self].enemy.player_handle].lin_vel = <<0, 0>>
    /\ Len(graph) = 2

-----------------------------------------------------------------------------
(* Properties of Enemy::on_init, checked under SpecEnemyInit. *)

\* The collider children of node h, in child order.
ColliderChildren(g, h) ==
    {c \in 1..Len(g) : g[c].kind = "Collider" /\ g[c].parent = h}

\* What on_init leaves apart from the collider: the own handle is the
\* script's node; with a node named "Player" the player handle is that node,
\* without one the player handle and the collider handle stay as they were;
\* without a collider child the collider handle stays as it was; nothing else
\* is written.
OnInitCachesHandles(self) ==
    LET before == graph[self].enemy
        after == graph'[self].enemy
        found == FindByName(graph, "Player")
    IN  /\ after.handle = self
        /\ found = NONE =>
              /\ after.player_handle = before.player_handle
              /\ after.player_collider = before.player_collider
        /\ found # NONE =>
              /\ after.player_handle = found
              /\ ColliderChildren(graph, found) = {} =>
                    after.player_collider = before.player_collider
        /\ graph' = [graph EXCEPT ![self].enemy =
                        [before EXCEPT !.handle = after.handle,
                                       !.player_handle = after.player_handle,
                                       !.player_collider = after.player_collider]]

\* C21 as stated: Enemy::on_init caches its own handle and the "Player"
\* node's, and sets player_collider to the first collider child of the
\* player, also when the player has several; without a "Player" node or
\* without a collider child the handles stay unset.
C21_CachesFirstCollider ==
    [][hook'.name = "enemy_on_init" =>
        /\ OnInitCachesHandles(hook'.self)
        /\ LET found == FindByName(graph, "Player")
               colliders == ColliderChildren(graph, found)
           IN  (found # NONE /\ colliders # {}) =>
                  /\ graph'[hook'.self].enemy.player_collider \in colliders
                  /\ \A c \in colliders :
                        graph'[hook'.self].enemy.player_collider <= c]_vars

\* C21, amended: as C21, but player_collider is the last collider child of
\* the player in child order.
C21_CachesLastCollider ==
    [][hook'.name = "enemy_on_init" =>
        /\ OnInitCachesHandles(hook'.self)
        /\ LET found == FindByName(graph, "Player")
               colliders == ColliderChildren(graph, found)
           IN  (found # NONE /\ colliders # {}) =>
                  /\ graph'[hook'.self].enemy.player_collider \in colliders
                  /\ \A c \in colliders :
                        graph'[hook'.self].enemy.player_collider >= c]_vars

\* C21's case: on_init has run for the enemy in a scene whose player has two
\* collider children; the enemy holds the player and the second collider.
C21_Witness ==
    /\ hook.name = "enemy_on_init"
    /\ ColliderChildren(graph, 1) = {3, 4}
    /\ graph[hook.self].enemy.handle = hook.self
    /\ graph[hook.self].enemy.player_handle = 1
    /\ graph[hook.self].enemy.player_collider = 4

-----------------------------------------------------------------------------
(* Properties of a spawn, checked under SpecSpawnArchetype. *)

\* The nodes a step added to the pool.
NewNodes == (Len(graph) + 1)..Len(graph')

\* C22: each spawn adds exactly one enemy rigid body whose script carries the
\* spawner's archetype unchanged (name, speed, scale, attack_damage,
\* attack_speed) and the sampled starting position, with a collider child and
\* a sprite child; the spawner's archetype, spawn_rate, spawn_radius and
\* player_handle are not modified, and no existing node is removed or changed.
C22_SpawnAddsOneArchetypeEnemy ==
    [][(hook'.name = "spawner_on_update" /\ spawned' = spawned + 1) =>
        /\ Len(graph') >= Len(graph)
        /\ \A h \in 1..Len(graph) : graph'[h] = graph[h]
        /\ Cardinality({h \in NewNodes : graph'[h].kind = "RigidBody"}) = 1
        /\ EnemyNodes(graph') \ EnemyNodes(graph) =
              {h \in NewNodes : graph'[h].kind = "RigidBody"}
        /\ \A h \in NewNodes : graph'[h].kind = "RigidBody" =>
              LET e == graph'[h].enemy
                  kids == {c \in 1..Len(graph') : graph'[c].parent = h}
                  rect == SpawnRect(graph[spawner.player_handle].pos,
                                    spawner.spawn_radius)
              IN  /\ e.name = spawner.enemy.name
                  /\ e.speed = spawner.enemy.speed
                  /\ e.scale = spawner.enemy.scale
                  /\ e.attack_damage = spawner.enemy.attack_damage
                  /\ e.attack_speed = spawner.enemy.attack_speed
                  /\ e.starting_position = graph'[h].pos
                  /\ rect.min_x <= e.starting_position[1]
                  /\ e.starting_position[1] <= rect.max_x
                  /\ rect.min_y <= e.starting_position[2]
                  /\ e.starting_position[2] <= rect.max_y
                  /\ kids \subseteq NewNodes
                  /\ Cardinality({c \in kids : graph'[c].kind = "Collider"}) = 1
                  /\ Cardinality({c \in kids : graph'[c].kind = "Rectangle"}) = 1
                  /\ e.sprite \in kids /\ graph'[e.sprite].kind = "Rectangle"
                  /\ NewNodes = kids \cup {h}
        /\ spawner'.enemy = spawner.enemy
        /\ spawner'.spawn_rate = spawner.spawn_rate
        /\ spawner'.spawn_radius = spawner.spawn_radius
        /\ spawner'.player_handle = spawner.player_handle]_vars

\* C22's case: a spawner with the "zombie" archetype has spawned; the enemy
\* in the scene is a rigid body with that archetype, a collider and a sprite,
\* and the spawner still holds the archetype.
C22_Witness ==
    /\ spawned = 1
    /\ spawner.enemy.name = "zombie"
    /\ \E h \in EnemyNodes(graph) :
          /\ graph[h].kind = "RigidBody"
          /\ graph[h].enemy.name = "zombie"
          /\ graph[h].enemy.speed = 200
          /\ graph[h].enemy.scale = 150
          /\ \E c \in 1..Len(graph) : graph[c].parent = h /\ graph[c].kind = "Collider"
          /\ \E c \in 1..Len(graph) : graph[c].parent = h /\ graph[c].kind = "Rectangle"

-----------------------------------------------------------------------------
(* Properties of Player::on_init, checked under SpecPlayer. *)

\* The scale on_init gives both health-bar quads:
\* (MAX_HEALTH_BAR_WIDTH, MAX_HEALTH_BAR_WIDTH / 4, 1).
FullBarScale == <<MAX_HEALTH_BAR_WIDTH, MAX_HEALTH_BAR_WIDTH \div 4, 100>>

\* C23: after a Player::on_init that returns, health = max_health = 100, the
\* player's body is at (MAP_OFFSET, MAP_OFFSET), and the player node has
\* gained exactly two children, HealthBarBackground and HealthBarProgress,
\* whose handles the script holds and whose scale is
\* (MAX_HEALTH_BAR_WIDTH, MAX_HEALTH_BAR_WIDTH / 4, 1); an on_update with no
\* damage taken leaves the progress bar at full width.
C23_OnInitPostState ==
    [][/\ (hook'.name = "player_on_init" /\ panic' = "") =>
            LET self == PlayerHandle
                gained == Children(graph', self) \ Children(graph, self)
            IN  /\ player'.health = 100 /\ player'.max_health = 100
                /\ player'.health = PLAYER_STARTING_HEALTH
                /\ graph'[self].pos = <<MAP_OFFSET, MAP_OFFSET>>
                /\ Cardinality(gained) = 2
                /\ Children(graph, self) \subseteq Children(graph', self)
                /\ gained = {player'.health_bar_background, player'.health_bar_progress}
                /\ gained \cap (1..Len(graph)) = {}
                /\ graph'[player'.health_bar_background].name = "HealthBarBackground"
                /\ graph'[player'.health_bar_progress].name = "HealthBarProgress"
                /\ \A c \in gained :
                      graph'[c].kind = "Rectangle" /\ graph'[c].scale = FullBarScale
       /\ (/\ hook'.name = "player_on_update" /\ panic' = ""
           /\ player.health = PLAYER_STARTING_HEALTH
           /\ player.max_health = PLAYER_STARTING_HEALTH) =>
            graph'[player.health_bar_progress].scale = FullBarScale]_vars

\* C23's case: on_init and then on_update have run with no damage taken; the
\* player is at the centre of the map, holds its two bars and the progress
\* bar is at full width.
C23_Witness ==
    /\ hook.name = "player_on_update" /\ panic = ""
    /\ player.health = 100 /\ player.max_health = 100
    /\ graph[PlayerHandle].pos = <<MAP_OFFSET, MAP_OFFSET>>
    /\ Children(graph, PlayerHandle) =
          {player.health_bar_background, player.health_bar_progress}
    /\ player.health_bar_background # player.health_bar_progress
    /\ BarScale = FullBarScale

-----------------------------------------------------------------------------
(* Properties of the plugin under loads that may fail, checked under *)
(* SpecPluginFailedLoad.                                              *)

\* C24: for any sequence of scene-begin-loading and scene-loaded events, two
\* begin-loading events with no loaded event between them included, the
\* plugin never asks the host to remove a scene it has already removed: the
\* scene on_scene_begin_loading removes is alive in the host's container.
C24_NeverRemovesRemovedScene ==
    [][(hook'.name = "on_scene_begin_loading" /\ SceneToRemove(plugin) # NONE) =>
        /\ IsAliveScene(scenes, SceneToRemove(plugin))
        /\ panic' = ""]_vars

-----------------------------------------------------------------------------
(* Properties of a frame's script pass, checked under SpecFrame. *)

RECURSIVE EnemiesUpdated(_, _)
\* The graph after on_update of the Enemy scripts on the nodes hs, lowest
\* handle first.
EnemiesUpdated(g, hs) ==
    IF hs = {} THEN g
    ELSE LET h == CHOOSE k \in hs : \A j \in hs : k <= j
         IN  EnemiesUpdated(MoveTowardsPlayer(g, g[h].enemy), hs \ {h})

\* The scripts of the frame in progress whose on_update has run.
FrameDone == ScriptsOf(tick.start.graph) \ tick.pending

\* The timer the spawner's on_update of this frame tests.
FrameTimer == tick.start.spawner.spawn_timer + tick.dt

\* The spawner's on_update of this frame reaches spawn_enemy.
FrameSpawnDue == SpawnDue(tick.start.spawner, FrameTimer)

\* The rectangle spawn_enemy of this frame samples from.
FrameSpawnRect ==
    SpawnRect(tick.start.graph[tick.start.spawner.player_handle].pos,
              tick.start.spawner.spawn_radius)

\* An on_update of this frame panics, whatever the order: the player's
\* health-bar handle does not resolve to a rectangle, or the spawner is due
\* and cannot sample a position.
FramePanics ==
    \/ LET bar == tick.start.player.health_bar_progress
       IN  ~(IsValidHandle(tick.start.graph, bar)
             /\ tick.start.graph[bar].kind = "Rectangle")
    \/ /\ FrameSpawnDue
       /\ \/ ~IsValidHandle(tick.start.graph, tick.start.spawner.player_handle)
          \/ GenRangePanics(FrameSpawnRect.min_x, FrameSpawnRect.max_x)
          \/ GenRangePanics(FrameSpawnRect.min_y, FrameSpawnRect.max_y)

\* The graph the Player and Enemy scripts that have run leave, computed from
\* the frame's starting state in one fixed order: the player, then the
\* enemies by handle.
FrameGraphOfDone ==
    LET start == tick.start
        self == FindByName(start.graph, "Player")
        g == IF ScriptPlayer \in FrameDone
             THEN WithHealthBar(WithPlayerVelocity(start.graph, self, start.player),
                                start.player)
             ELSE start.graph
    IN  EnemiesUpdated(g, {h \in 1..Len(start.graph) : ScriptEnemy(h) \in FrameDone})

\* The spawner has run in this frame and has spawned.
FrameSpawned == ScriptSpawner \in FrameDone /\ FrameSpawnDue

\* C25: within one frame the state the on_update hooks leave does not depend
\* on the order the host invokes them in.  Whatever subset of the Player, Enemy
\* and EnemySpawner hooks has run so far, and in whatever order, the state is
\* the one computed from the frame's starting state by the fixed order "player,
\* enemies by handle, spawner": the player's velocity and health-bar scale,
\* each enemy's velocity, the spawner's timer and whether it spawned (the
\* spawned enemy being the archetype at some position of the rectangle around
\* the player's starting position).  Whether the frame ends in a panic does
\* not depend on the order either.
C25_FrameIsOrderIndependent ==
    tick.active =>
        /\ panic # "" => FramePanics
        /\ (panic = "" /\ tick.pending = {}) => ~FramePanics
        /\ panic = "" =>
            /\ player = tick.start.player
            /\ spawner = [tick.start.spawner EXCEPT !.spawn_timer =
                            IF ScriptSpawner \notin FrameDone THEN @
                            ELSE IF FrameSpawnDue THEN TimerAfterSpawn(FrameTimer)
                            ELSE FrameTimer]
            /\ spawned = tick.start.spawned + (IF FrameSpawned THEN 1 ELSE 0)
            /\ IF FrameSpawned
               THEN \E x \in GenRange(FrameSpawnRect.min_x, FrameSpawnRect.max_x),
                       y \in GenRange(FrameSpawnRect.min_y, FrameSpawnRect.max_y) :
                      graph = EnemyBuild(FrameGraphOfDone,
                                         SpawnedEnemy(tick.start.spawner, <<x, y>>))
               ELSE graph = FrameGraphOfDone

\* A frame has run every hook: the player's velocity and health bar and the
\* enemy's velocity changed, and the spawner spawned.
C25_Witness ==
    /\ tick.active /\ tick.pending = {} /\ panic = ""
    /\ Cardinality(ScriptsOf(tick.start.graph)) = 3
    /\ spawned = tick.start.spawned + 1
    /\ LET self == FindByName(graph, "Player")
           bar == player.health_bar_progress
       IN  /\ graph[self].lin_vel # tick.start.graph[self].lin_vel
           /\ graph[bar].scale # tick.start.graph[bar].scale
    /\ \E h \in 1..Len(tick.start.graph) :
          /\ graph[h].script = "Enemy"
          /\ graph[h].lin_vel # tick.start.graph[h].lin_vel

====
